---- MODULE Spec2Model ----
(***************************************************************************)
(* Model of srcfiles: the worklist driver of src/src/lib.rs                *)
(* (crate_srcfiles, mod_srcfiles, process_source, visit_source,            *)
(* propagate_parent_file) over the descriptor types of                     *)
(* src/src/source_desc.rs.  The modules visitor.rs, mod_path.rs and        *)
(* error.rs are not part of the available sources: the syntax visitor,     *)
(* the path resolver and the result views are modelled from spec.md and    *)
(* from what tests/test_projects.rs observes of them.                      *)
(*                                                                         *)
(* A path is a sequence of components, never normalised.  The file system  *)
(* is a function from a finite set of paths to a file state; every other   *)
(* path is absent.  It is chosen once, before the run, and never changes.  *)
(***************************************************************************)
EXTENDS Integers, Sequences, FiniteSets, TLC

\* ------------------------------------------------------------------ bounds

\* At most this many files exist in the file system of a run.
MaxFiles == 3
\* The drain loop is followed for at most this many recorded entries (a file
\* that names itself keeps the worklist non-empty for ever).
MaxEntries == 6

\* ------------------------------------------------------------------- paths

Dir(p) == SubSeq(p, 1, Len(p) - 1)
FileName(p) == p[Len(p)]
Join(dir, rel) == dir \o rel

\* "<name>.rs"
RsFile(name) ==
    CASE name = "a" -> "a.rs"
      [] name = "b" -> "b.rs"
      [] name = "m" -> "m.rs"
      [] OTHER -> "other.rs"

\* the file name without its extension
Stem(file) ==
    CASE file = "a.rs" -> "a"
      [] file = "b.rs" -> "b"
      [] file = "m.rs" -> "m"
      [] file = "x.rs" -> "x"
      [] file = "main.rs" -> "main"
      [] file = "mod.rs" -> "mod"
      [] OTHER -> file

\* ------------------------------------------------------------- descriptors

None == << >>
Some(x) == << x >>

NoStack == [file_dir |-> << >>, mod_dir |-> << >>]

RustSource(mod_type) == [t |-> "RustSource", mod_type |-> mod_type, stack |-> NoStack]
RustSnippet(mod_stack) == [t |-> "RustSnippet", mod_type |-> "-", stack |-> mod_stack]
Bytes == [t |-> "Bytes", mod_type |-> "-", stack |-> NoStack]
String == [t |-> "String", mod_type |-> "-", stack |-> NoStack]

SourceFileDesc(path, file_type, parent_file) ==
    [path |-> path, file_type |-> file_type, parent_file |-> parent_file]

\* ------------------------------------------------------------ syntax trees

Mod(name) == [kind |-> "mod", name |-> name, path |-> << >>, body |-> << >>]
ModAt(name, rel) == [kind |-> "mod", name |-> name, path |-> rel, body |-> << >>]
Inline(name, items) == [kind |-> "inline", name |-> name, path |-> << >>, body |-> items]
Include(rel) == [kind |-> "include", name |-> "", path |-> rel, body |-> << >>]
IncludeBytes(rel) == [kind |-> "include_bytes", name |-> "", path |-> rel, body |-> << >>]
IncludeStr(rel) == [kind |-> "include_str", name |-> "", path |-> rel, body |-> << >>]
Block(items) == [kind |-> "block", name |-> "", path |-> << >>, body |-> items]
CfgIf(blocks) == [kind |-> "cfg_if", name |-> "", path |-> << >>, body |-> blocks]
Other == [kind |-> "other", name |-> "", path |-> << >>, body |-> << >>]

AstEmpty == << Other >>
AstMods == << Mod("a"), Mod("b") >>
AstInline == << Inline("m", << Mod("a") >>), IncludeBytes(<< "d.bin" >>) >>
AstPath == << ModAt("a", << "x.rs" >>), ModAt("b", << "x.rs" >>) >>
AstIncl == << Include(<< "x.rs" >>), IncludeStr(<< "x.rs" >>) >>
AstCfg == << CfgIf(<< Block(<< Mod("a") >>), Block(<< Mod("b") >>) >>) >>

Asts == {AstEmpty, AstMods, AstInline, AstPath, AstIncl, AstCfg}

\* ------------------------------------------------------------- file system

Absent == [st |-> "absent", ast |-> << >>]
Unreadable == [st |-> "unreadable", ast |-> << >>]
Unparsable == [st |-> "unparsable", ast |-> << >>]
Parsed(ast) == [st |-> "ok", ast |-> ast]

PresentStates == {Unreadable, Unparsable} \cup {Parsed(ast) : ast \in Asts}

FsPaths ==
    { << "main.rs" >>, << "a.rs" >>, << "a", "mod.rs" >>, << "b.rs" >>,
      << "a", "b.rs" >>, << "m", "a.rs" >>, << "x.rs" >> }

RootPaths == { << "main.rs" >>, << "x.rs" >> }

VARIABLES
    fs,             \* the file system of the run
    root,           \* the path given to crate_srcfiles
    pc,             \* "start", "loop", "done": position in mod_srcfiles
    source_queue,   \* the worklist (a Vec used as a stack)
    result,         \* SourcesAndErrors.sources: Seq of <<descriptor, errors>>
    ret,            \* the value mod_srcfiles returned, once pc = "done"
    pushed,         \* history: every descriptor pushed on the worklist
    popped,         \* history: every descriptor popped from the worklist
    produced,       \* history: every <<descriptor, error>> process_source produced
    opened          \* history: every path handed to File::open

vars == << fs, root, pc, source_queue, result, ret, pushed, popped, produced, opened >>

Exists(p) == p \in DOMAIN fs /\ fs[p].st # "absent"
FileAt(p) == IF p \in DOMAIN fs THEN fs[p] ELSE Absent

\* ------------------------------------------------------------ module stack

\* The stack of a module that lives in its own file: where paths written in
\* the file are relative to, and where its unqualified children are searched.
FromModPath(path, mod_type) ==
    [file_dir |-> Dir(path),
     mod_dir |-> IF mod_type = "ModRs"
                 THEN Dir(path)
                 ELSE Dir(path) \o << Stem(FileName(path)) >>]

StackPush(stack, name) == [stack EXCEPT !.mod_dir = @ \o << name >>]

\* ----------------------------------------------------------- path resolver

Candidate(path, mod_type) == [path |-> path, mod_type |-> mod_type]

\* The candidate files of a file-backed module declaration, in probe order.
Candidates(stack, name, override) ==
    IF override # << >>
    THEN << Candidate(Join(stack.file_dir, override),
                      IF FileName(override) = "mod.rs" THEN "ModRs" ELSE "Adjacent") >>
    ELSE << Candidate(stack.mod_dir \o << RsFile(name) >>, "Adjacent"),
            Candidate(stack.mod_dir \o << name, "mod.rs" >>, "ModRs") >>

Io == [kind |-> "Io", desc |-> None]
Parse == [kind |-> "Parse", desc |-> None]
MissingFile(desc) == [kind |-> "MissingFile", desc |-> Some(desc)]

CandidateDesc(c) == SourceFileDesc(c.path, RustSource(c.mod_type), None)

Found(cands) == { i \in 1..Len(cands) : Exists(cands[i].path) }

First(S) == CHOOSE i \in S : \A j \in S : i <= j

\* A file-backed module: the first candidate that exists is emitted; when none
\* exists, one MissingFile per attempted candidate.
ResolveMod(stack, name, override) ==
    LET cands == Candidates(stack, name, override)
    IN  IF Found(cands) # {}
        THEN [cands |-> << CandidateDesc(cands[First(Found(cands))]) >>, errs |-> << >>]
        ELSE [cands |-> << >>,
              errs |-> [i \in 1..Len(cands) |-> MissingFile(CandidateDesc(cands[i]))]]

\* ---------------------------------------------------------- syntax visitor

IncludeType(kind, stack) ==
    CASE kind = "include" -> RustSnippet(stack)
      [] kind = "include_bytes" -> Bytes
      [] kind = "include_str" -> String

RECURSIVE VisitItems(_, _)
VisitItems(items, stack) ==
    IF items = << >>
    THEN [cands |-> << >>, errs |-> << >>]
    ELSE LET it == Head(items)
             here ==
                 CASE it.kind = "mod" -> ResolveMod(stack, it.name, it.path)
                   [] it.kind = "inline" -> VisitItems(it.body, StackPush(stack, it.name))
                   [] it.kind \in {"include", "include_bytes", "include_str"} ->
                        [cands |-> << SourceFileDesc(Join(stack.file_dir, it.path),
                                                     IncludeType(it.kind, stack), None) >>,
                         errs |-> << >>]
                   [] it.kind \in {"cfg_if", "block"} -> VisitItems(it.body, stack)
                   [] OTHER -> [cands |-> << >>, errs |-> << >>]
             rest == VisitItems(Tail(items), stack)
         IN  [cands |-> here.cands \o rest.cands, errs |-> here.errs \o rest.errs]

\* ------------------------------------------------------------------ driver

\* Fault variant of PropagateParentFile: the candidates keep the parent they
\* were built with.
PropagateNothing(path, source_descs) == source_descs

PropagateParentFile(path, source_descs) ==
    [i \in 1..Len(source_descs) |-> [source_descs[i] EXCEPT !.parent_file = Some(path)]]

Ok(sources, errs) == [ok |-> TRUE, sources |-> sources, errs |-> errs, error |-> Io, opens |-> TRUE]
Err(error) == [ok |-> FALSE, sources |-> << >>, errs |-> << >>, error |-> error, opens |-> TRUE]
Skipped == [ok |-> TRUE, sources |-> << >>, errs |-> << >>, error |-> Io, opens |-> FALSE]

\* Fault variant of VisitSource: a parse failure is swallowed.
VisitSourceSwallow(path, stack) ==
    LET file == FileAt(path)
    IN  IF file.st \in {"absent", "unreadable"} THEN Err(Io)
        ELSE LET v == VisitItems(file.ast, stack)
             IN  Ok(PropagateParentFile(path, v.cands), v.errs)

\* Fault variant of VisitSource: the candidates of an unresolved module are
\* queued as if they had been found.
VisitSourceQueuesMissing(path, stack) ==
    LET file == FileAt(path)
    IN  IF file.st \in {"absent", "unreadable"} THEN Err(Io)
        ELSE IF file.st = "unparsable" THEN Err(Parse)
        ELSE LET v == VisitItems(file.ast, stack)
                 missing == [i \in 1..Len(v.errs) |-> v.errs[i].desc[1]]
             IN  Ok(PropagateParentFile(path, v.cands \o missing), v.errs)

VisitSource(path, stack) ==
    LET file == FileAt(path)
    IN  IF file.st \in {"absent", "unreadable"} THEN Err(Io)
        ELSE IF file.st = "unparsable" THEN Err(Parse)
        ELSE LET v == VisitItems(file.ast, stack)
             IN  Ok(PropagateParentFile(path, v.cands), v.errs)

\* Fault variant of ProcessSource: no early return for Bytes and String.
ProcessSourceOpensAll(source) ==
    IF source.file_type.t = "RustSnippet"
    THEN VisitSource(source.path, source.file_type.stack)
    ELSE VisitSource(source.path, FromModPath(source.path, "ModRs"))

\* Fault variant of ProcessSource: the naming convention recorded in the
\* descriptor is not handed on, every source module is taken as ModRs.
ProcessSourceAlwaysModRs(source) ==
    CASE source.file_type.t \in {"Bytes", "String"} -> Skipped
      [] source.file_type.t = "RustSnippet" ->
            VisitSource(source.path, source.file_type.stack)
      [] source.file_type.t = "RustSource" ->
            VisitSource(source.path, FromModPath(source.path, "ModRs"))

\* Fault variant of ProcessSource: every source module is taken as an
\* Adjacent file, so its children are searched in the directory named after it.
ProcessSourceAlwaysAdjacent(source) ==
    CASE source.file_type.t \in {"Bytes", "String"} -> Skipped
      [] source.file_type.t = "RustSnippet" ->
            VisitSource(source.path, source.file_type.stack)
      [] source.file_type.t = "RustSource" ->
            VisitSource(source.path, FromModPath(source.path, "Adjacent"))

\* Fault variant of ProcessSource: the stack carried by a snippet is dropped
\* and the visitor starts from the included file's own path.
ProcessSourceSnippetOwnDir(source) ==
    CASE source.file_type.t \in {"Bytes", "String"} -> Skipped
      [] source.file_type.t = "RustSnippet" ->
            VisitSource(source.path, FromModPath(source.path, "ModRs"))
      [] source.file_type.t = "RustSource" ->
            VisitSource(source.path, FromModPath(source.path, source.file_type.mod_type))

ProcessSource(source) ==
    CASE source.file_type.t \in {"Bytes", "String"} -> Skipped
      [] source.file_type.t = "RustSnippet" ->
            VisitSource(source.path, source.file_type.stack)
      [] source.file_type.t = "RustSource" ->
            VisitSource(source.path, FromModPath(source.path, source.file_type.mod_type))

\* Fault variant of RootDesc: the root is seeded with the convention of an
\* ordinary file.
RootDescAdjacent(path) == SourceFileDesc(path, RustSource("Adjacent"), None)

RootDesc(path) == SourceFileDesc(path, RustSource("ModRs"), None)

\* Vec::pop takes the last element
Top(queue) == queue[Len(queue)]
Pop(queue) == SubSeq(queue, 1, Len(queue) - 1)

\* Fault variant of Extend: a source whose path is already queued is not
\* queued again.
ExtendDedup(queue, sources) ==
    queue \o SelectSeq(sources, LAMBDA d : \A i \in 1..Len(queue) : queue[i].path # d.path)

\* Fault variant of Extend: only the first of the discovered sources is
\* queued.
ExtendFirstOnly(queue, sources) ==
    queue \o SubSeq(sources, 1, IF Len(sources) > 0 THEN 1 ELSE 0)

Extend(queue, sources) == queue \o sources

\* Fault variant of RecordOk: a path already recorded is not recorded again.
RecordOkUnlessSeen(sources, source, src_errors) ==
    IF \E i \in 1..Len(sources) : sources[i][1].path = source.path
    THEN sources
    ELSE Append(sources, << source, src_errors >>)

\* Fault variant of RecordOk: the visitor's errors are not kept.
RecordOkNoErrors(sources, source, src_errors) == Append(sources, << source, << >> >>)

\* Fault variant of RecordOk: only the first of the visitor's errors is kept.
RecordOkFirstErrorOnly(sources, source, src_errors) ==
    Append(sources, << source, SubSeq(src_errors, 1, IF Len(src_errors) > 0 THEN 1 ELSE 0) >>)

\* Fault variant of RecordOk: the entry is put in front of the recorded ones.
RecordOkFront(sources, source, src_errors) == << << source, src_errors >> >> \o sources

RecordOk(sources, source, src_errors) == Append(sources, << source, src_errors >>)
\* Fault variant of RecordErr: the failed source is not recorded.
RecordErrDropped(sources, source, error) == sources

RecordErr(sources, source, error) == Append(sources, << source, << error >> >>)

\* Fault variant of AllEmpty: `any` written for `all`.
AnyEmpty(sources) == \E i \in 1..Len(sources) : sources[i][2] = << >>

AllEmpty(sources) == \A i \in 1..Len(sources) : sources[i][2] = << >>

\* SourcesAndErrors views
IntoSources(sources) == [i \in 1..Len(sources) |-> sources[i][1]]
GetSources(sources) == [i \in 1..Len(sources) |-> sources[i][1]]

RECURSIVE IntoErrors(_)
IntoErrors(sources) ==
    IF sources = << >> THEN << >>
    ELSE [i \in 1..Len(Head(sources)[2]) |-> << Head(sources)[1], Head(sources)[2][i] >>]
         \o IntoErrors(Tail(sources))

NoReturn == [tag |-> "none", sources |-> << >>, result |-> << >>]
RetOk(sources) == [tag |-> "Ok", sources |-> sources, result |-> << >>]
\* Fault variant of RetErr: only the entries that failed are handed back.
RetErrFailedOnly(res) ==
    [tag |-> "Err", sources |-> << >>, result |-> SelectSeq(res, LAMBDA e : e[2] # << >>)]

RetErr(res) == [tag |-> "Err", sources |-> << >>, result |-> res]

Init ==
    /\ \E S \in SUBSET FsPaths :
          /\ Cardinality(S) <= MaxFiles
          /\ \E f \in [S -> PresentStates] :
                fs = [p \in FsPaths |-> IF p \in S THEN f[p] ELSE Absent]
    /\ root \in RootPaths
    /\ pc = "start"
    /\ source_queue = << >>
    /\ result = << >>
    /\ ret = NoReturn
    /\ pushed = << >>
    /\ popped = << >>
    /\ produced = << >>
    /\ opened = << >>

\* crate_srcfiles / the head of mod_srcfiles: seed the worklist with the root.
CrateSrcfiles ==
    /\ pc = "start"
    /\ source_queue' = << RootDesc(root) >>
    /\ pushed' = << RootDesc(root) >>
    /\ pc' = "loop"
    /\ UNCHANGED << fs, root, result, ret, popped, produced, opened >>

\* One iteration of `while let Some(source) = source_queue.pop()`.
DrainStep ==
    /\ pc = "loop"
    /\ source_queue # << >>
    /\ Len(result) < MaxEntries
    /\ LET source == Top(source_queue)
           rest == Pop(source_queue)
           r == ProcessSource(source)
       IN  /\ popped' = Append(popped, source)
           /\ opened' = IF r.opens THEN Append(opened, source.path) ELSE opened
           /\ IF r.ok
              THEN /\ source_queue' = Extend(rest, r.sources)
                   /\ pushed' = pushed \o r.sources
                   /\ produced' = produced \o [i \in 1..Len(r.errs) |-> << source, r.errs[i] >>]
                   /\ result' = RecordOk(result, source, r.errs)
              ELSE /\ source_queue' = rest
                   /\ pushed' = pushed
                   /\ produced' = Append(produced, << source, r.error >>)
                   /\ result' = RecordErr(result, source, r.error)
    /\ UNCHANGED << fs, root, pc, ret >>

\* The worklist is empty: classify the run.
Return ==
    /\ pc = "loop"
    /\ source_queue = << >>
    /\ ret' = IF AllEmpty(result) THEN RetOk(IntoSources(result)) ELSE RetErr(result)
    /\ pc' = "done"
    /\ UNCHANGED << fs, root, source_queue, result, pushed, popped, produced, opened >>

\* ------------------------------------------------- the loop with a free pop order

Remove(queue, i) == SubSeq(queue, 1, i - 1) \o SubSeq(queue, i + 1, Len(queue))

\* One iteration of the loop that takes the descriptor at position i of the
\* worklist instead of the last one; nothing else differs from DrainStep.
DrainAt(i) ==
    /\ pc = "loop"
    /\ Len(result) < MaxEntries
    /\ LET source == source_queue[i]
           rest == Remove(source_queue, i)
           r == ProcessSource(source)
       IN  /\ popped' = Append(popped, source)
           /\ opened' = IF r.opens THEN Append(opened, source.path) ELSE opened
           /\ IF r.ok
              THEN /\ source_queue' = Extend(rest, r.sources)
                   /\ pushed' = pushed \o r.sources
                   /\ produced' = produced \o [k \in 1..Len(r.errs) |-> << source, r.errs[k] >>]
                   /\ result' = RecordOk(result, source, r.errs)
              ELSE /\ source_queue' = rest
                   /\ pushed' = pushed
                   /\ produced' = Append(produced, << source, r.error >>)
                   /\ result' = RecordErr(result, source, r.error)
    /\ UNCHANGED << fs, root, pc, ret >>

DrainAny == \E i \in 1..Len(source_queue) : DrainAt(i)

NextAnyOrder == CrateSrcfiles \/ DrainAny \/ Return

\* The file systems of Init in which every file that exists can be read and
\* parsed; a file that does not exist still fails to open and is still
\* reported missing.
InitAnyOrder ==
    /\ Init
    /\ \A p \in FsPaths : fs[p].st \in {"absent", "ok"}

SpecAnyOrder == InitAnyOrder /\ [][NextAnyOrder]_vars

\* The loop of mod_srcfiles as a function: the worklist and the result after
\* at most `fuel` iterations in the code's order (Vec::pop, the last first).
RECURSIVE LifoRun(_, _, _)
LifoRun(queue, sources, fuel) ==
    IF queue = << >> \/ fuel = 0
    THEN [queue |-> queue, result |-> sources]
    ELSE LET source == Top(queue)
             r == ProcessSource(source)
         IN  IF r.ok
             THEN LifoRun(Extend(Pop(queue), r.sources), RecordOk(sources, source, r.errs), fuel - 1)
             ELSE LifoRun(Pop(queue), RecordErr(sources, source, r.error), fuel - 1)

Next == CrateSrcfiles \/ DrainStep \/ Return

Spec == Init /\ [][Next]_vars

\* ================================================================== claims

Entries == 1..Len(result)
IsRoot(d) == d.path = root /\ d.parent_file = None
FailsToLoad(p) == FileAt(p).st \in {"absent", "unreadable", "unparsable"}
IsOpaque(d) == d.file_type.t \in {"Bytes", "String"}

\* C1: the run returns Ok exactly when every recorded entry has an empty error
\* sequence; the Ok value is the list of the descriptors of all recorded
\* entries, in order; any entry with an error makes the run return Err.
C1_OkIffNoErrors ==
    pc = "done" =>
        /\ ret.tag \in {"Ok", "Err"}
        /\ (ret.tag = "Ok") <=> (\A i \in Entries : Len(result[i][2]) = 0)
        /\ (\E i \in Entries : Len(result[i][2]) > 0) => ret.tag = "Err"
        /\ ret.tag = "Ok" =>
              /\ Len(ret.sources) = Len(result)
              /\ \A i \in Entries : ret.sources[i] = result[i][1]

\* an Err run in which some entries carry errors and others do not
C1_Witness ==
    /\ pc = "done"
    /\ ret.tag = "Err"
    /\ \E i \in Entries : Len(result[i][2]) = 0
    /\ \E i \in Entries : Len(result[i][2]) > 0

\* C2: an Err value holds one entry per descriptor popped during the run, in
\* pop order, those without errors included; its sources view is the popped
\* descriptors and its errors view is every error that was produced.
C2_ErrKeepsEverything ==
    (pc = "done" /\ ret.tag = "Err") =>
        /\ Len(ret.result) = Len(popped)
        /\ \A i \in 1..Len(popped) : ret.result[i][1] = popped[i]
        /\ GetSources(ret.result) = popped
        /\ IntoErrors(ret.result) = produced

\* an Err run that popped both a descriptor with errors and one without
C2_Witness ==
    /\ pc = "done"
    /\ ret.tag = "Err"
    /\ Len(popped) >= 3
    /\ Len(produced) >= 2
    /\ \E i \in 1..Len(popped) : \A k \in 1..Len(produced) : produced[k][1] # popped[i]

\* C3: the root descriptor is among the sources of every finished run (the Ok
\* list, or the sources view of the Err value); a root that cannot be opened
\* or parsed gives Err with the root as only entry, carrying that one failure.
C3_RootRecorded ==
    pc = "done" =>
        /\ ret.tag = "Ok" => \E i \in 1..Len(ret.sources) : IsRoot(ret.sources[i])
        /\ ret.tag = "Err" =>
              \E i \in 1..Len(ret.result) : IsRoot(GetSources(ret.result)[i])
        /\ FailsToLoad(root) =>
              /\ ret.tag = "Err"
              /\ Len(ret.result) = 1
              /\ IsRoot(ret.result[1][1])
              /\ Len(ret.result[1][2]) = 1
              /\ ret.result[1][2][1].kind \in {"Io", "Parse"}

\* the root file does not exist and the run has returned
C3_Witness ==
    /\ pc = "done"
    /\ FileAt(root).st = "absent"
    /\ ret.tag = "Err"

\* the descriptors held by the worklist and by the recorded result
Held == [i \in 1..Len(result) |-> result[i][1]] \o source_queue
Popping == pc = "loop" /\ source_queue # << >> /\ popped' # popped

\* C4: of the descriptors in the worklist or in the result exactly one, the
\* root seed, has no parent_file; every descriptor a visit pushes has as
\* parent_file the path of the file popped in that step; and a descriptor keeps
\* its parent_file while queued and when recorded.
C4_ParentPath ==
    [][ /\ LET held == [i \in 1..Len(result') |-> result'[i][1]] \o source_queue'
           IN  /\ Len(held) >= 1
               /\ held[1].path = root
               /\ held[1].parent_file = None
               /\ \A i \in 2..Len(held) : Len(held[i].parent_file) = 1
        /\ \A i \in 1..Len(result) : result'[i] = result[i]
        /\ Popping =>
              /\ \A i \in 1..(Len(source_queue) - 1) : source_queue'[i] = source_queue[i]
              /\ \A i \in Len(source_queue)..Len(source_queue') :
                    source_queue'[i].parent_file = Some(Top(source_queue).path)
              /\ result'[Len(result) + 1][1] = Top(source_queue)
      ]_vars

\* a descriptor emitted by a file other than the root is recorded
C4_Witness ==
    \E i \in Entries :
        /\ result[i][1].parent_file # None
        /\ result[i][1].parent_file # Some(root)

\* C5: popping a Bytes or String descriptor opens no file, records the
\* descriptor with no error and pushes nothing; recorded opaque entries never
\* carry errors.
C5_OpaqueNeverOpened ==
    [][ /\ \A i \in 1..Len(result') :
              IsOpaque(result'[i][1]) => result'[i][2] = << >>
        /\ (Popping /\ IsOpaque(Top(source_queue))) =>
              /\ opened' = opened
              /\ pushed' = pushed
              /\ source_queue' = Pop(source_queue)
              /\ result' = Append(result, << Top(source_queue), << >> >>)
      ]_vars

\* two opaque entries are recorded, one whose file exists and one whose file
\* does not
C5_Witness ==
    /\ \E i \in Entries : IsOpaque(result[i][1]) /\ Exists(result[i][1].path)
    /\ \E i \in Entries : IsOpaque(result[i][1]) /\ ~Exists(result[i][1].path)

\* C6: when the popped source file cannot be opened, read or parsed, the
\* descriptor is recorded with exactly that one error (Io or Parse), nothing is
\* pushed, the rest of the worklist and the recorded entries are untouched and
\* the loop goes on; a run only returns with the worklist empty and every
\* pushed descriptor recorded.
C6_ErrorsAreLocal ==
    [][ /\ (Popping /\ ~IsOpaque(Top(source_queue)) /\ FailsToLoad(Top(source_queue).path)) =>
              /\ Len(result') = Len(result) + 1
              /\ \A i \in 1..Len(result) : result'[i] = result[i]
              /\ result'[Len(result) + 1][1] = Top(source_queue)
              /\ Len(result'[Len(result) + 1][2]) = 1
              /\ result'[Len(result) + 1][2][1].kind =
                    (IF FileAt(Top(source_queue).path).st = "unparsable" THEN "Parse" ELSE "Io")
              /\ source_queue' = Pop(source_queue)
              /\ pushed' = pushed
              /\ pc' = "loop"
        /\ pc' = "done" =>
              /\ source_queue' = << >>
              /\ Len(result') = Len(pushed')
              /\ \A i \in 1..Len(pushed') : \E j \in 1..Len(result') : result'[j][1] = pushed'[i]
      ]_vars

\* a run has returned in which a file failed to parse and a descriptor that
\* was queued at that moment was processed afterwards
C6_Witness ==
    /\ pc = "done"
    /\ \E i \in Entries :
          /\ Len(result[i][2]) = 1
          /\ result[i][2][1].kind = "Parse"
          /\ \E j \in Entries :
                /\ j > i
                /\ result[j][1].parent_file = result[i][1].parent_file

\* C7: every run terminates.  Processing depends only on the popped descriptor
\* and the file system, so a step that pushes the very descriptor it popped
\* repeats for ever: a run that empties its worklist has no such step.
C7_RunTerminates ==
    [][ Popping =>
            \A i \in Len(source_queue)..Len(source_queue') :
                source_queue'[i] # Top(source_queue)
      ]_vars

CountWhere(seq, Test(_)) == Cardinality({ i \in 1..Len(seq) : Test(seq[i]) })
PathsSeen == { pushed[i].path : i \in 1..Len(pushed) }

\* C8 as stated: in the result of a run no two recorded entries have the same
\* descriptor path.
C8_PathAtMostOnce ==
    pc = "done" =>
        \A i, j \in Entries : i # j => result[i][1].path # result[j][1].path

\* C8, amended: a path is the path of as many processed entries as descriptors
\* with that path were pushed on the worklist; while the loop runs, the ones
\* not yet recorded are still queued.
C8_PathOncePerDescriptor ==
    \A p \in PathsSeen :
        CountWhere(Held, LAMBDA d : d.path = p) = CountWhere(pushed, LAMBDA d : d.path = p)

\* a finished run recorded the same path twice
C8_Witness ==
    /\ pc = "done"
    /\ \E i, j \in Entries : i # j /\ result[i][1].path = result[j][1].path

\* C9: the worklist neither drops nor merges descriptors: every descriptor is
\* held (queued or recorded) as often as it was pushed, and when the run has
\* returned the entries are exactly the pushed descriptors, one entry each:
\* the seed plus every child emitted.
C9_NoDedupNoLoss ==
    /\ Len(result) + Len(source_queue) = Len(pushed)
    /\ \A k \in 1..Len(pushed) :
          CountWhere(Held, LAMBDA d : d = pushed[k]) = CountWhere(pushed, LAMBDA d : d = pushed[k])
    /\ pc = "done" =>
          /\ Len(result) = Len(pushed)
          /\ popped = [i \in Entries |-> result[i][1]]
          /\ \A k \in 1..Len(pushed) : \E i \in Entries : result[i][1] = pushed[k]

\* a finished run recorded two entries for one path that were emitted by two
\* different files
C9_Witness ==
    /\ pc = "done"
    /\ \E i, j \in Entries :
          /\ result[i][1].path = result[j][1].path
          /\ result[i][1].parent_file # None
          /\ result[j][1].parent_file # None
          /\ result[i][1].parent_file # result[j][1].parent_file

\* The file-backed module declarations of a syntax tree, each with its
\* candidates, as the visitor meets them.
RECURSIVE ModDecls(_, _)
ModDecls(items, stack) ==
    IF items = << >> THEN << >>
    ELSE LET it == Head(items)
             here ==
                 CASE it.kind = "mod" -> << Candidates(stack, it.name, it.path) >>
                   [] it.kind = "inline" -> ModDecls(it.body, StackPush(stack, it.name))
                   [] it.kind \in {"cfg_if", "block"} -> ModDecls(it.body, stack)
                   [] OTHER -> << >>
         IN  here \o ModDecls(Tail(items), stack)

Visited(d) == ~IsOpaque(d) /\ ~FailsToLoad(d.path)
StackOf(d) ==
    IF d.file_type.t = "RustSnippet" THEN d.file_type.stack
    ELSE FromModPath(d.path, d.file_type.mod_type)
DeclsOf(d) == ModDecls(FileAt(d.path).ast, StackOf(d))

Winner(cands, k) == Exists(cands[k].path) /\ \A j \in 1..(k - 1) : ~Exists(cands[j].path)
ChildDesc(c, parent) == SourceFileDesc(c.path, RustSource(c.mod_type), Some(parent))

\* the declaration resolved and its descriptor is recorded (with no error)
ResolvedRecorded(e, cands) ==
    \E k \in 1..Len(cands) :
        /\ Winner(cands, k)
        /\ \E i \in Entries : result[i][1] = ChildDesc(cands[k], e[1].path)
ResolvedClean(e, cands) ==
    \E k \in 1..Len(cands) :
        /\ Winner(cands, k)
        /\ \E i \in Entries :
              result[i][1] = ChildDesc(cands[k], e[1].path) /\ result[i][2] = << >>

\* a MissingFile is recorded for every candidate and nothing was queued
MissingRecorded(e, cands) ==
    /\ \A k \in 1..Len(cands) :
          \E n \in 1..Len(e[2]) : e[2][n] = MissingFile(CandidateDesc(cands[k]))
    /\ \A k \in 1..Len(cands) :
          \A n \in 1..Len(pushed) : pushed[n] # ChildDesc(cands[k], e[1].path)
NoMissingFor(e, cands) ==
    \A k \in 1..Len(cands) :
        \A n \in 1..Len(e[2]) : e[2][n] # MissingFile(CandidateDesc(cands[k]))

\* C10 as stated: at the end of the run every reached file-backed module is
\* either resolved and recorded with zero errors, or missing, never both and
\* never neither.
C10_ResolvedCleanOrMissing ==
    pc = "done" =>
        \A i \in Entries :
            Visited(result[i][1]) =>
                \A n \in 1..Len(DeclsOf(result[i][1])) :
                    LET cands == DeclsOf(result[i][1])[n]
                    IN  ResolvedClean(result[i], cands) # MissingRecorded(result[i], cands)

\* C10, amended: either the module resolved, its descriptor is recorded (with
\* whatever errors its own processing produced) and the declaring file carries
\* no MissingFile for it, or every candidate has its MissingFile on the
\* declaring file and nothing was queued; never both and never neither.
C10_ResolvedOrMissing ==
    pc = "done" =>
        \A i \in Entries :
            Visited(result[i][1]) =>
                \A n \in 1..Len(DeclsOf(result[i][1])) :
                    LET cands == DeclsOf(result[i][1])[n]
                        resolved == /\ ResolvedRecorded(result[i], cands)
                                    /\ NoMissingFor(result[i], cands)
                    IN  resolved # MissingRecorded(result[i], cands)

\* a finished run with a module that resolved to a file with errors of its
\* own, and a module that is missing
C10_Witness ==
    /\ pc = "done"
    /\ \E i \in Entries :
          /\ Visited(result[i][1])
          /\ \E n \in 1..Len(DeclsOf(result[i][1])) :
                /\ ResolvedRecorded(result[i], DeclsOf(result[i][1])[n])
                /\ ~ResolvedClean(result[i], DeclsOf(result[i][1])[n])
    /\ \E i \in Entries :
          /\ Visited(result[i][1])
          /\ \E n \in 1..Len(DeclsOf(result[i][1])) :
                MissingRecorded(result[i], DeclsOf(result[i][1])[n])

IsMissingFile(err) == err.kind = "MissingFile"
Unresolved(cands) == \A k \in 1..Len(cands) : ~Exists(cands[k].path)
NoOverride(cands) == Len(cands) = 2

\* the number of MissingFile errors the unresolved declarations of a file
\* stand for: one per attempted candidate
RECURSIVE MissingFilesDue(_)
MissingFilesDue(decls) ==
    IF decls = << >> THEN 0
    ELSE (IF Unresolved(Head(decls)) THEN Len(Head(decls)) ELSE 0) + MissingFilesDue(Tail(decls))

UnresolvedDecls(decls) == { n \in 1..Len(decls) : Unresolved(decls[n]) }

\* C11 as stated: an unresolved module declaration gives exactly one
\* MissingFile, so a file's entry carries as many MissingFile errors as the
\* file has unresolved module declarations.
C11_OneMissingFilePerModule ==
    pc = "done" =>
        \A i \in Entries :
            Visited(result[i][1]) =>
                CountWhere(result[i][2], IsMissingFile)
                    = Cardinality(UnresolvedDecls(DeclsOf(result[i][1])))

\* C11, amended: a module declaration without override whose two candidates
\* are absent gives two MissingFile errors on the entry of the declaring file,
\* one naming the adjacent file and then one naming the directory index, each
\* once; no descriptor for the module is pushed; the sibling modules that
\* resolve are recorded; and the entry carries one MissingFile per attempted
\* candidate of its unresolved declarations.
C11_MissingFilePerCandidate ==
    pc = "done" =>
        \A i \in Entries :
            Visited(result[i][1]) =>
                LET e == result[i]
                    decls == DeclsOf(e[1])
                IN  /\ CountWhere(e[2], IsMissingFile) = MissingFilesDue(decls)
                    /\ \A n \in 1..Len(decls) :
                          (NoOverride(decls[n]) /\ Unresolved(decls[n])) =>
                              /\ \A k \in 1..2 :
                                    CountWhere(e[2], LAMBDA err :
                                        err = MissingFile(CandidateDesc(decls[n][k]))) = 1
                              /\ \E a, b \in 1..Len(e[2]) :
                                    /\ b = a + 1
                                    /\ e[2][a] = MissingFile(CandidateDesc(decls[n][1]))
                                    /\ e[2][b] = MissingFile(CandidateDesc(decls[n][2]))
                              /\ \A k \in 1..2 : \A m \in 1..Len(pushed) :
                                    pushed[m] # ChildDesc(decls[n][k], e[1].path)
                              /\ \A s \in 1..Len(decls) :
                                    ~Unresolved(decls[s]) => ResolvedRecorded(e, decls[s])

\* a finished run in which a file declares a module that has neither file and
\* a sibling module that resolves
C11_Witness ==
    /\ pc = "done"
    /\ \E i \in Entries :
          /\ Visited(result[i][1])
          /\ \E n, s \in 1..Len(DeclsOf(result[i][1])) :
                /\ NoOverride(DeclsOf(result[i][1])[n])
                /\ Unresolved(DeclsOf(result[i][1])[n])
                /\ ~Unresolved(DeclsOf(result[i][1])[s])
                /\ ResolvedRecorded(result[i], DeclsOf(result[i][1])[s])

\* The file-backed module declarations of a syntax tree as written: the name,
\* the path override (<< >> when there is none), the chain of enclosing
\* inline modules and whether the declaration stands in a cfg_if block.
RECURSIVE DeclItems(_, _, _)
DeclItems(items, chain, gated) ==
    IF items = << >> THEN << >>
    ELSE LET it == Head(items)
             here ==
                 CASE it.kind = "mod" ->
                        << [name |-> it.name, override |-> it.path, chain |-> chain,
                            gated |-> gated] >>
                   [] it.kind = "inline" -> DeclItems(it.body, chain \o << it.name >>, gated)
                   [] it.kind \in {"cfg_if", "block"} -> DeclItems(it.body, chain, TRUE)
                   [] OTHER -> << >>
         IN  here \o DeclItems(Tail(items), chain, gated)

DeclItemsOf(d) == DeclItems(FileAt(d.path).ast, << >>, FALSE)

\* the directory paths written in the file of d are relative to
FileDirOf(d) ==
    IF d.file_type.t = "RustSnippet" THEN d.file_type.stack.file_dir ELSE Dir(d.path)

\* the directory the unqualified children of d are searched in
ChildDirOf(d) ==
    CASE d.file_type.t = "RustSnippet" -> d.file_type.stack.mod_dir
      [] d.file_type.mod_type = "ModRs" -> Dir(d.path)
      [] OTHER -> Dir(d.path) \o << Stem(FileName(d.path)) >>

AdjacentPath(dir, name) == dir \o << RsFile(name) >>
ModRsPath(dir, name) == dir \o << name, "mod.rs" >>

NamesPath(err, p) == err.kind = "MissingFile" /\ err.desc[1].path = p
PushedFrom(parent, p) ==
    \E m \in 1..Len(pushed) : pushed[m].path = p /\ pushed[m].parent_file = Some(parent)

\* C12: a module declaration with a path override has the override, taken
\* relative to the directory of the declaring file, as only candidate: when
\* that file is absent the entry of the declaring file carries one MissingFile
\* naming it for each such declaration, nothing is queued for the module, and
\* the adjacent-file and directory-index paths of the module are neither
\* reported nor queued, also when one of them exists.
C12_OverrideIsOnlyCandidate ==
    pc = "done" =>
        \A i \in Entries :
            Visited(result[i][1]) =>
                LET e == result[i]
                    decls == DeclItemsOf(e[1])
                IN  \A n \in 1..Len(decls) :
                        LET target == Join(FileDirOf(e[1]), decls[n].override)
                            dir == ChildDirOf(e[1]) \o decls[n].chain
                            defaults == { AdjacentPath(dir, decls[n].name),
                                          ModRsPath(dir, decls[n].name) }
                        IN  (decls[n].override # << >> /\ ~Exists(target)) =>
                                /\ CountWhere(e[2], LAMBDA err : NamesPath(err, target))
                                      = Cardinality({ m \in 1..Len(decls) :
                                                        decls[m].override = decls[n].override })
                                /\ ~PushedFrom(e[1].path, target)
                                /\ \A p \in defaults :
                                      /\ \A k \in 1..Len(e[2]) : ~NamesPath(e[2][k], p)
                                      /\ ~PushedFrom(e[1].path, p)

\* a finished run in which an overridden module is missing although its
\* adjacent file exists
C12_Witness ==
    /\ pc = "done"
    /\ \E i \in Entries :
          /\ Visited(result[i][1])
          /\ \E n \in 1..Len(DeclItemsOf(result[i][1])) :
                LET d == DeclItemsOf(result[i][1])[n]
                IN  /\ d.override # << >>
                    /\ ~Exists(Join(FileDirOf(result[i][1]), d.override))
                    /\ Exists(AdjacentPath(ChildDirOf(result[i][1]) \o d.chain, d.name))

\* the descriptors pushed by the step that pops the top of the worklist
Kids == SubSeq(source_queue', Len(source_queue), Len(source_queue'))
NewErrors == result'[Len(result) + 1][2]
VisitingStep == Popping /\ Visited(Top(source_queue))

\* C13: for a module declaration without override the visit of the declaring
\* file pushes exactly one descriptor when a candidate exists: the adjacent
\* file, as RustSource(Adjacent), when it exists, else the directory index, as
\* RustSource(ModRs); it pushes none when neither exists.  The candidates lie
\* in the directory given by the naming convention recorded in the popped
\* descriptor (beside a ModRs file, in the directory named after an Adjacent
\* file), extended by the enclosing inline modules.
C13_FirstCandidateWins ==
    [][ VisitingStep =>
            LET top == Top(source_queue)
                decls == DeclItemsOf(top)
            IN  \A n \in 1..Len(decls) :
                    LET dir == ChildDirOf(top) \o decls[n].chain
                        adj == AdjacentPath(dir, decls[n].name)
                        idx == ModRsPath(dir, decls[n].name)
                        emitted == CountWhere(Kids, LAMBDA d : d.path \in {adj, idx})
                    IN  decls[n].override = << >> =>
                            /\ Exists(adj) =>
                                  /\ emitted = 1
                                  /\ \E k \in 1..Len(Kids) :
                                        Kids[k] = SourceFileDesc(adj, RustSource("Adjacent"),
                                                                 Some(top.path))
                            /\ (~Exists(adj) /\ Exists(idx)) =>
                                  /\ emitted = 1
                                  /\ \E k \in 1..Len(Kids) :
                                        Kids[k] = SourceFileDesc(idx, RustSource("ModRs"),
                                                                 Some(top.path))
                            /\ (~Exists(adj) /\ ~Exists(idx)) => emitted = 0
      ]_vars

\* a module whose adjacent file and directory index both exist is recorded as
\* the adjacent file, and the modules it declares were searched in the
\* directory named after it
C13_Witness ==
    \E i \in Entries :
        LET d == result[i][1]
            own == Dir(d.path) \o << Stem(FileName(d.path)) >>
        IN  /\ d.file_type.t = "RustSource"
            /\ d.file_type.mod_type = "Adjacent"
            /\ Exists(own \o << "mod.rs" >>)
            /\ Visited(d)
            /\ \E k \in 1..Len(result[i][2]) :
                  /\ IsMissingFile(result[i][2][k])
                  /\ Dir(result[i][2][k].desc[1].path) = own

\* the paths some declaration of the file of d has as default candidates
DefaultCandidates(d) ==
    LET decls == DeclItemsOf(d)
    IN  UNION { { AdjacentPath(ChildDirOf(d) \o decls[n].chain, decls[n].name),
                  ModRsPath(ChildDirOf(d) \o decls[n].chain, decls[n].name) } :
                n \in { m \in 1..Len(decls) : decls[m].override = << >> } }

\* C14: a file-backed module declared inside inline modules is searched in the
\* directory of the declaring file's children extended by the names of the
\* enclosing inline modules (name.rs, then name/mod.rs): the visit pushes the
\* first of the two that exists, else reports both as MissingFile; the paths
\* of the same name directly in the unextended directory are neither pushed
\* nor reported; and the step opens the popped file and no other.
C14_InlineModuleDirectory ==
    [][ VisitingStep =>
            LET top == Top(source_queue)
                decls == DeclItemsOf(top)
            IN  /\ opened' = Append(opened, top.path)
                /\ \A n \in 1..Len(decls) :
                      LET flat == ChildDirOf(top)
                          dir == flat \o decls[n].chain
                          adj == AdjacentPath(dir, decls[n].name)
                          idx == ModRsPath(dir, decls[n].name)
                          outside == { AdjacentPath(flat, decls[n].name),
                                       ModRsPath(flat, decls[n].name) }
                                         \ DefaultCandidates(top)
                      IN  (decls[n].chain # << >> /\ decls[n].override = << >>) =>
                              /\ Exists(adj) =>
                                    \E k \in 1..Len(Kids) :
                                        Kids[k] = SourceFileDesc(adj, RustSource("Adjacent"),
                                                                 Some(top.path))
                              /\ (~Exists(adj) /\ Exists(idx)) =>
                                    \E k \in 1..Len(Kids) :
                                        Kids[k] = SourceFileDesc(idx, RustSource("ModRs"),
                                                                 Some(top.path))
                              /\ (~Exists(adj) /\ ~Exists(idx)) =>
                                    /\ \E k \in 1..Len(NewErrors) : NamesPath(NewErrors[k], adj)
                                    /\ \E k \in 1..Len(NewErrors) : NamesPath(NewErrors[k], idx)
                              /\ \A p \in outside :
                                    /\ \A k \in 1..Len(Kids) : Kids[k].path # p
                                    /\ \A k \in 1..Len(NewErrors) : ~NamesPath(NewErrors[k], p)
      ]_vars

\* the root declares a module inside an inline module; the file of that name
\* beside the root exists and so does the one in the inline module's
\* directory, and the latter was pushed
C14_Witness ==
    \E i \in Entries :
        /\ IsRoot(result[i][1])
        /\ Visited(result[i][1])
        /\ \E n \in 1..Len(DeclItemsOf(result[i][1])) :
              LET d == DeclItemsOf(result[i][1])[n]
              IN  /\ d.chain # << >>
                  /\ Exists(AdjacentPath(Dir(root), d.name))
                  /\ Exists(AdjacentPath(Dir(root) \o d.chain, d.name))
                  /\ PushedFrom(root, AdjacentPath(Dir(root) \o d.chain, d.name))
                  /\ ~PushedFrom(root, AdjacentPath(Dir(root), d.name))

\* The inclusion macros of a syntax tree as written: the macro, the literal
\* path and the chain of enclosing inline modules.
RECURSIVE InclItems(_, _)
InclItems(items, chain) ==
    IF items = << >> THEN << >>
    ELSE LET it == Head(items)
             here ==
                 CASE it.kind \in {"include", "include_bytes", "include_str"} ->
                        << [kind |-> it.kind, path |-> it.path, chain |-> chain] >>
                   [] it.kind = "inline" -> InclItems(it.body, chain \o << it.name >>)
                   [] it.kind \in {"cfg_if", "block"} -> InclItems(it.body, chain)
                   [] OTHER -> << >>
         IN  here \o InclItems(Tail(items), chain)

InclItemsOf(d) == InclItems(FileAt(d.path).ast, << >>)

\* the step searched the module `name` in dir: the first of name.rs and
\* name/mod.rs that exists is pushed, else both are reported missing
SearchedIn(top, dir, name) ==
    LET adj == AdjacentPath(dir, name)
        idx == ModRsPath(dir, name)
    IN  /\ Exists(adj) =>
              \E k \in 1..Len(Kids) :
                  Kids[k] = SourceFileDesc(adj, RustSource("Adjacent"), Some(top.path))
        /\ (~Exists(adj) /\ Exists(idx)) =>
              \E k \in 1..Len(Kids) :
                  Kids[k] = SourceFileDesc(idx, RustSource("ModRs"), Some(top.path))
        /\ (~Exists(adj) /\ ~Exists(idx)) =>
              /\ \E k \in 1..Len(NewErrors) : NamesPath(NewErrors[k], adj)
              /\ \E k \in 1..Len(NewErrors) : NamesPath(NewErrors[k], idx)

\* the step neither pushed nor reported the path p
Untouched(p) ==
    /\ \A k \in 1..Len(Kids) : Kids[k].path # p
    /\ \A k \in 1..Len(NewErrors) : ~NamesPath(NewErrors[k], p)

\* C15: the visit of a file pushes, for each include! of a literal path, one
\* RustSnippet descriptor for that path (relative to the directory of the
\* file) that carries the module stack at the inclusion: the directory of the
\* including file and the directory its children are searched in there.  When
\* a snippet is popped, the modules its file declares are searched in the
\* carried directory, and the paths of the same names in the included file's
\* own directory are neither pushed nor reported.
C15_SnippetCarriesStack ==
    [][ VisitingStep =>
            LET top == Top(source_queue)
                incls == InclItemsOf(top)
                decls == DeclItemsOf(top)
            IN  /\ \A n \in 1..Len(incls) :
                      LET at == [file_dir |-> FileDirOf(top),
                                 mod_dir |-> ChildDirOf(top) \o incls[n].chain]
                          path == Join(FileDirOf(top), incls[n].path)
                      IN  incls[n].kind = "include" =>
                              /\ CountWhere(Kids, LAMBDA d :
                                     d = SourceFileDesc(path, RustSnippet(at), Some(top.path)))
                                   = Cardinality({ m \in 1..Len(incls) :
                                         /\ incls[m].kind = "include"
                                         /\ incls[m].path = incls[n].path
                                         /\ incls[m].chain = incls[n].chain })
                              /\ CountWhere(Kids, LAMBDA d :
                                     d.path = path /\ d.file_type.t = "RustSnippet")
                                   = Cardinality({ m \in 1..Len(incls) :
                                         /\ incls[m].kind = "include"
                                         /\ incls[m].path = incls[n].path })
                /\ top.file_type.t = "RustSnippet" =>
                      \A n \in 1..Len(decls) :
                          LET carried == top.file_type.stack.mod_dir \o decls[n].chain
                              own == Dir(top.path) \o decls[n].chain
                          IN  decls[n].override = << >> =>
                                  /\ SearchedIn(top, carried, decls[n].name)
                                  /\ \A p \in { AdjacentPath(own, decls[n].name),
                                                ModRsPath(own, decls[n].name) }
                                                  \ DefaultCandidates(top) : Untouched(p)
      ]_vars

\* a snippet included from a module whose children live in another directory
\* than the included file was visited; a module it declares has a file beside
\* the included file, and was reported missing in the carried directory
C15_Witness ==
    \E i \in Entries :
        LET d == result[i][1]
        IN  /\ d.file_type.t = "RustSnippet"
            /\ d.file_type.stack.mod_dir # Dir(d.path)
            /\ Visited(d)
            /\ \E n \in 1..Len(DeclItemsOf(d)) :
                  LET decl == DeclItemsOf(d)[n]
                  IN  /\ decl.override = << >>
                      /\ Exists(AdjacentPath(Dir(d.path) \o decl.chain, decl.name))
                      /\ \E k \in 1..Len(result[i][2]) :
                            NamesPath(result[i][2][k],
                                      AdjacentPath(d.file_type.stack.mod_dir \o decl.chain,
                                                   decl.name))

\* the step pushed the file at p when it exists and reported it missing when
\* it does not
PushedOrReported(top, p) ==
    IF Exists(p)
    THEN \E k \in 1..Len(Kids) : Kids[k].path = p /\ Kids[k].parent_file = Some(top.path)
    ELSE \E k \in 1..Len(NewErrors) : NamesPath(NewErrors[k], p)

\* C16: the visit of a file emits every module declaration standing in a
\* block of the cfg_if idiom, whichever block it stands in: the module is
\* pushed when a candidate exists and reported missing (every candidate)
\* when none does, so the children pushed for the file include the resolved
\* modules of all the blocks.
C16_AllBranchesEmitted ==
    [][ VisitingStep =>
            LET top == Top(source_queue)
                decls == DeclItemsOf(top)
            IN  \A n \in 1..Len(decls) :
                    decls[n].gated =>
                        IF decls[n].override = << >>
                        THEN SearchedIn(top, ChildDirOf(top) \o decls[n].chain, decls[n].name)
                        ELSE PushedOrReported(top, Join(FileDirOf(top), decls[n].override))
      ]_vars

\* a visited file lists two modules in different cfg_if blocks; the file of
\* each exists and both were pushed from it
C16_Witness ==
    \E i \in Entries :
        LET d == result[i][1]
            decls == DeclItemsOf(d)
        IN  /\ Visited(d)
            /\ FileAt(d.path).ast = AstCfg
            /\ \E n, m \in 1..Len(decls) :
                  /\ n # m
                  /\ decls[n].gated /\ decls[m].gated
                  /\ \A k \in {n, m} :
                        LET p == AdjacentPath(ChildDirOf(d) \o decls[k].chain, decls[k].name)
                        IN  Exists(p) /\ PushedFrom(d.path, p)

\* the multiset of the elements of a sequence
Multiset(seq) ==
    [x \in { seq[i] : i \in 1..Len(seq) } |-> Cardinality({ i \in 1..Len(seq) : seq[i] = x })]

\* what the code's last-in-first-out loop gives for this root and file system
LifoResult == LifoRun(<< RootDesc(root) >>, << >>, MaxEntries)

\* C17: a run that drains the worklist in any order and returns has recorded
\* the same multiset of (descriptor, errors) entries as the code's
\* last-in-first-out loop, which also finishes, and returns Ok exactly when
\* that loop does.
C17_PopOrderIrrelevant ==
    pc = "done" =>
        LET lifo == LifoResult
        IN  /\ lifo.queue = << >>
            /\ Multiset(result) = Multiset(lifo.result)
            /\ (ret.tag = "Ok") <=> AllEmpty(lifo.result)
            /\ (ret.tag = "Err") <=> ~AllEmpty(lifo.result)

\* a finished run whose entries stand in another order than the
\* last-in-first-out loop records them in
C17_Witness ==
    /\ pc = "done"
    /\ Len(result) >= 4
    /\ result # LifoResult.result
    /\ \E i \in Entries : result[i][2] # << >>

\* C18: the run starts by queueing one descriptor, the root path as
\* RustSource(ModRs) without parent, whatever the file is called; the visit
\* of the root searches its modules without override in the directory of the
\* root file (name.rs, then name/mod.rs, under the enclosing inline modules),
\* and the paths of the same names in the directory named after the root file
\* are neither pushed nor reported.
C18_RootIsDirectoryIndex ==
    [][ /\ pc = "start" =>
              /\ source_queue' = << SourceFileDesc(root, RustSource("ModRs"), None) >>
              /\ result' = << >>
        /\ (VisitingStep /\ result = << >>) =>
              LET top == Top(source_queue)
                  decls == DeclItemsOf(top)
                  named == Dir(root) \o << Stem(FileName(root)) >>
              IN  /\ top = SourceFileDesc(root, RustSource("ModRs"), None)
                  /\ \A n \in 1..Len(decls) :
                        decls[n].override = << >> =>
                            /\ SearchedIn(top, Dir(root) \o decls[n].chain, decls[n].name)
                            /\ \A p \in { AdjacentPath(named \o decls[n].chain, decls[n].name),
                                          ModRsPath(named \o decls[n].chain, decls[n].name) } :
                                  Untouched(p)
      ]_vars

\* a root not called mod.rs was visited; one module it declares was found
\* beside it and another was reported missing beside it
C18_Witness ==
    /\ FileName(root) # "mod.rs"
    /\ \E i \in Entries :
          LET decls == DeclItemsOf(result[i][1])
          IN  /\ result[i][1] = RootDesc(root)
              /\ Visited(result[i][1])
              /\ \E n, m \in 1..Len(decls) :
                    /\ decls[n].override = << >> /\ decls[n].chain = << >>
                    /\ decls[m].override = << >> /\ decls[m].chain = << >>
                    /\ PushedFrom(root, AdjacentPath(Dir(root), decls[n].name))
                    /\ \E k \in 1..Len(result[i][2]) :
                          NamesPath(result[i][2][k], AdjacentPath(Dir(root), decls[m].name))

\* entry e is a recorded parent of descriptor d: d names its path as parent,
\* and e is a source file that was read and parsed (it carries no Io or Parse
\* error)
Discovered(e, d) ==
    /\ d.parent_file = Some(e[1].path)
    /\ Visited(e[1])
    /\ \A k \in 1..Len(e[2]) : e[2][k].kind \notin {"Io", "Parse"}

\* C19: at every point of the loop the first recorded entry is the root
\* seed; every later entry has a parent, and an entry recorded before it has
\* that parent's path and was read and parsed; every descriptor in the
\* worklist other than the seed has such an entry recorded already.
C19_ParentBeforeChild ==
    /\ Len(result) >= 1 => result[1][1] = SourceFileDesc(root, RustSource("ModRs"), None)
    /\ \A i \in 2..Len(result) :
          /\ result[i][1].parent_file # None
          /\ \E j \in 1..(i - 1) : Discovered(result[j], result[i][1])
    /\ \A q \in 1..Len(source_queue) :
          \/ result = << >> /\ source_queue = << SourceFileDesc(root, RustSource("ModRs"), None) >>
          \/ \E j \in Entries : Discovered(result[j], source_queue[q])

\* in the loop, an entry discovered by a file other than the root is
\* recorded after entries of other branches, and the worklist still holds a
\* descriptor whose parent is not the last recorded entry
C19_Witness ==
    /\ pc = "loop"
    /\ Len(result) >= 3
    /\ \E i \in 3..Len(result) :
          /\ result[i][1].parent_file # Some(root)
          /\ result[i][1].parent_file # Some(result[i - 1][1].path)
    /\ \E q \in 1..Len(source_queue) :
          source_queue[q].parent_file # Some(result[Len(result)][1].path)

====
